---------------------------- MODULE Spec2Model ----------------------------
(***************************************************************************)
(* The environment table, identifier scheme, lifecycle operations and      *)
(* dispatcher of kern/env.c, and its ELF loader.                           *)
(*                                                                         *)
(* Spec     : the environment table under env_alloc, envid2env, env_free,  *)
(*            env_destroy, csys_exit and env_run.                          *)
(* SpecPerm : environments that create environments, and envid2env with    *)
(*            permission checking.                                         *)
(* SpecElf  : env_create, that is env_alloc followed by load_icode and     *)
(*            bind_functions on an ELF image.                              *)
(* SpecSys  : the operations that change the table, with csys_exit and     *)
(*            csys_yield.                                                  *)
(* SpecSmp  : env_alloc and env_free on two cores, access by access.       *)
(***************************************************************************)
EXTENDS Integers, Sequences, FiniteSets, TLC

VARIABLES
    envs,           \* env_array[NENV]: the environment records
    env_free_list,  \* head of the free list (a slot index, or NULL)
    curenv,         \* the currently active environment (a slot index, or NULL)
    stack_top,      \* the static watermark of env_alloc
    destroying,     \* the argument of an env_destroy call that has executed
                    \* line 547 but not yet line 548 (NULL: no such call)
    last,           \* the last call made: its arguments, result and how it ended
    retired,        \* history: identifier -> number of env_alloc calls on its
                    \* slot since an environment holding it was freed (-1:
                    \* no environment holding it has been freed)
    lineage,        \* history: slot -> the serial number of the env_alloc call
                    \* that filled it (self) and of the one that filled the
                    \* environment whose identifier was its parent_id (creator)
    mem,            \* the bytes load_icode and bind_functions have written:
                    \* address -> byte, over the addresses written
    icode,          \* history: the last load_icode call, its image, its result
                    \* and the bytes written when line 491 was reached
    cpus            \* core -> where the core stands in the env_alloc or env_free
                    \* call it is executing, the call's local variables, and
                    \* the environments its env_alloc calls have returned

vars == <<envs, env_free_list, curenv, stack_top, destroying, last, retired,
         lineage, mem, icode, cpus>>

---------------------------------------------------------------------------
(* Bounds of the model.                                                    *)

\* log2 of the table capacity NENV (inc/env.h; must be a power of two)
LOGNENV == 2
\* width in bits of envid_t (int32_t in the source: 32), narrowed so that the
\* generation wraparound of env_alloc is reached within MaxAllocs
EnvIdBits == 15
\* env_alloc calls that succeed (stack_top falls without limit in the source)
MaxAllocs == 4
\* the same, where callers pass parent identifiers (SpecPerm)
MaxAllocsPerm == 5
\* cap of the env_runs counter
MaxRuns == 1
\* the same in SpecPerm
MaxRunsPerm == 1

---------------------------------------------------------------------------
(* Program constants.                                                      *)

ENVGENSHIFT == 12
NENV == 2 ^ LOGNENV
Slots == 0 .. NENV - 1
\* the null pointer, as a slot index no slot has
NULL == NENV

ENV_FREE == "ENV_FREE"
ENV_DYING == "ENV_DYING"
ENV_RUNNABLE == "ENV_RUNNABLE"
ENV_RUNNING == "ENV_RUNNING"
ENV_NOT_RUNNABLE == "ENV_NOT_RUNNABLE"
EnvStatus == {ENV_FREE, ENV_DYING, ENV_RUNNABLE, ENV_RUNNING, ENV_NOT_RUNNABLE}

E_BAD_ENV == 2
E_NO_FREE_ENV == 5

GD_KT == 8
GD_KD == 16
FL_IF == 512
FL_IOPL_0 == 0
USTACKSIZE == 8192
STACK_TOP_INIT == 33554432

\* enum EnvType values a caller passes to env_alloc
EnvTypes == {1}

---------------------------------------------------------------------------
(* Fixed-width integer arithmetic on envid_t.                              *)

IdModulus == 2 ^ EnvIdBits

\* the two's complement bit pattern of a signed value
ToUnsigned(x) == x % IdModulus

\* the signed value of a bit pattern
ToSigned(u) == IF u >= IdModulus \div 2 THEN u - IdModulus ELSE u

RECURSIVE BitAnd(_, _)
BitAnd(a, b) ==
    IF a = 0 \/ b = 0 THEN 0
    ELSE (a % 2) * (b % 2) + 2 * BitAnd(a \div 2, b \div 2)

RECURSIVE BitOr(_, _)
BitOr(a, b) ==
    IF a = 0 THEN b
    ELSE IF b = 0 THEN a
    ELSE (IF a % 2 = 1 \/ b % 2 = 1 THEN 1 ELSE 0) + 2 * BitOr(a \div 2, b \div 2)

BitNot(a) == IdModulus - 1 - a

\* ENVX(envid): the slot index in the low LOGNENV bits
ENVX(envid) == BitAnd(ToUnsigned(envid), NENV - 1)

---------------------------------------------------------------------------
(* Records.                                                                *)

\* a Trapframe after memset(&env->env_tf, 0, ...)
ZeroTf ==
    [tf_regs |-> 0, tf_es |-> 0, tf_ds |-> 0, tf_rip |-> 0, tf_cs |-> 0,
     tf_rflags |-> 0, tf_rsp |-> 0, tf_ss |-> 0]

\* a struct Env of the zero-initialised static env_array
ZeroEnv ==
    [env_id |-> 0, env_parent_id |-> 0, env_type |-> 0, env_status |-> ENV_FREE,
     env_runs |-> 0, env_link |-> NULL, env_tf |-> ZeroTf]

\* the record of a call: its arguments, its result, and how it ended:
\* "return", "sched_yield", "env_pop_tf", "panic", "fault", or "pending"
\* while env_destroy stands between its lines 547 and 548
Call(op, env, envid, flag, r, store, exit) ==
    [op |-> op, env |-> env, envid |-> envid, flag |-> flag, r |-> r,
     env_store |-> store, exit |-> exit]

NoCall == Call("env_init", NULL, 0, 0, 0, NULL, "return")

\* no load_icode call has been made
NoIcode ==
    [done |-> FALSE, image |-> << >>, env |-> NULL, r |-> 0, loaded |-> << >>,
     bound |-> << >>]

\* the processor cores
Cpus == {0, 1}

\* a core that is in no call: pc is the line of env.c the core stands
\* before, env and tmp the call's local pointer and local value, held the
\* slots its env_alloc calls have returned and it has not freed, calls the
\* number of calls it has begun
IdleCpu == [pc |-> "idle", env |-> NULL, tmp |-> 0, held |-> {}, calls |-> 0]

\* the identifiers env_alloc can produce: a positive multiple of the stride
\* in the generation bits, a slot index in the low bits
NumGenerations == 2 ^ (EnvIdBits - 1 - ENVGENSHIFT) - 1
IssuableIds ==
    {k * 2 ^ ENVGENSHIFT + i : k \in 1 .. NumGenerations, i \in Slots}

\* the identifiers callers pass to envid2env: zero, every issuable one, and
\* ones never issued (generation zero, a set filler bit, a negative value)
LookupIds == {0} \cup IssuableIds \cup {1, 2 ^ ENVGENSHIFT + NENV, 0 - 1}

\* what a read through a null curenv yields: a value, or Fault for a trap
Fault == IdModulus
NullReads == {0, 2 ^ ENVGENSHIFT, Fault}

---------------------------------------------------------------------------
(* env_init                                                                *)

\* env_init with the loop of line 149 running upwards: the list is seeded
\* in descending slot order
InitDescending ==
    /\ envs = [i \in Slots |->
                 [ZeroEnv EXCEPT !.env_link = IF i = 0 THEN NULL ELSE i - 1]]
    /\ env_free_list = NENV - 1
    /\ curenv = NULL
    /\ stack_top = STACK_TOP_INIT
    /\ destroying = NULL
    /\ last = NoCall
    /\ retired = [id \in IssuableIds |-> 0 - 1]
    /\ lineage = [e \in Slots |-> [self |-> 0, creator |-> 0]]
    /\ mem = << >>
    /\ icode = NoIcode
    /\ cpus = [c \in Cpus |-> IdleCpu]

Init ==
    /\ envs = [i \in Slots |->
                 [ZeroEnv EXCEPT !.env_link = IF i = NENV - 1 THEN NULL ELSE i + 1]]
    /\ env_free_list = 0
    /\ curenv = NULL
    /\ stack_top = STACK_TOP_INIT
    /\ destroying = NULL
    /\ last = NoCall
    /\ retired = [id \in IssuableIds |-> 0 - 1]
    /\ lineage = [e \in Slots |-> [self |-> 0, creator |-> 0]]
    /\ mem = << >>
    /\ icode = NoIcode
    /\ cpus = [c \in Cpus |-> IdleCpu]

---------------------------------------------------------------------------
(* envid2env                                                               *)

\* envid2env with the ENV_FREE test of line 93 left out
Envid2envNoFreeTest(envid, need_check_perm, junk) ==
    IF envid = 0
    THEN [r |-> 0, env_store |-> curenv, exit |-> "return"]
    ELSE IF envs[ENVX(envid)].env_id # envid
    THEN [r |-> 0 - E_BAD_ENV, env_store |-> NULL, exit |-> "return"]
    ELSE [r |-> 0, env_store |-> ENVX(envid), exit |-> "return"]

\* envid2env with the permission test of line 103 left out
Envid2envNoPermTest(envid, need_check_perm, junk) ==
    IF envid = 0
    THEN [r |-> 0, env_store |-> curenv, exit |-> "return"]
    ELSE IF envs[ENVX(envid)].env_status = ENV_FREE
            \/ envs[ENVX(envid)].env_id # envid
    THEN [r |-> 0 - E_BAD_ENV, env_store |-> NULL, exit |-> "return"]
    ELSE [r |-> 0, env_store |-> ENVX(envid), exit |-> "return"]

\* the result of envid2env(envid, env_store, need_check_perm); junk is what
\* the read of curenv->env_id at line 103 yields when curenv is NULL
Envid2env(envid, need_check_perm, junk) ==
    IF envid = 0
    THEN [r |-> 0, env_store |-> curenv, exit |-> "return"]
    ELSE LET env == ENVX(envid) IN
         IF envs[env].env_status = ENV_FREE \/ envs[env].env_id # envid
         THEN [r |-> 0 - E_BAD_ENV, env_store |-> NULL, exit |-> "return"]
         ELSE IF need_check_perm /\ env # curenv
         THEN IF curenv = NULL /\ junk = Fault
              THEN [r |-> 0, env_store |-> NULL, exit |-> "fault"]
              ELSE LET curenv_id == IF curenv = NULL THEN junk
                                    ELSE envs[curenv].env_id
                   IN IF envs[env].env_parent_id # curenv_id
                      THEN [r |-> 0 - E_BAD_ENV, env_store |-> NULL,
                            exit |-> "return"]
                      ELSE [r |-> 0, env_store |-> env, exit |-> "return"]
         ELSE [r |-> 0, env_store |-> env, exit |-> "return"]

\* no call is in progress and the kernel has not halted
Idle == destroying = NULL /\ last.exit \notin {"panic", "fault"}

Lookup(envid, need_check_perm, junk) ==
    /\ Idle
    /\ LET res == Envid2env(envid, need_check_perm, junk)
       IN last' = Call("envid2env", NULL, envid,
                       IF need_check_perm THEN 1 ELSE 0,
                       res.r, res.env_store, res.exit)
    /\ UNCHANGED <<envs, env_free_list, curenv, stack_top, destroying, retired, lineage, mem, icode, cpus>>

---------------------------------------------------------------------------
(* env_alloc                                                               *)

\* Generation with the stride of line 180 left out
GenerationNoStride(env_id) ==
    LET generation == ToSigned(BitAnd(ToUnsigned(env_id), BitNot(NENV - 1)))
    IN IF generation <= 0 THEN 2 ^ ENVGENSHIFT ELSE generation

\* Generation with the reset of line 182 left out
GenerationNoReset(env_id) ==
    ToSigned(BitAnd(ToUnsigned(ToSigned(ToUnsigned(env_id + 2 ^ ENVGENSHIFT))),
                    BitNot(NENV - 1)))

\* lines 180-182: the generation of the next identifier of a slot
Generation(env_id) ==
    LET sum == ToSigned(ToUnsigned(env_id + 2 ^ ENVGENSHIFT))
        generation == ToSigned(BitAnd(ToUnsigned(sum), BitNot(NENV - 1)))
    IN IF generation <= 0 THEN 2 ^ ENVGENSHIFT ELSE generation

\* MkEnvId with the slot index of line 183 left out
MkEnvIdNoIndex(generation, idx) == generation

\* line 183: generation | (env - envs)
MkEnvId(generation, idx) == ToSigned(BitOr(ToUnsigned(generation), idx))

\* AllocTf with the assignment of line 213 left out
AllocTfNoStack(sp) ==
    [ZeroTf EXCEPT !.tf_ds = GD_KD, !.tf_es = GD_KD, !.tf_ss = GD_KD,
                   !.tf_cs = GD_KT, !.tf_rflags = BitOr(FL_IF, FL_IOPL_0)]

\* lines 195-217: the trap frame of a new environment
AllocTf(sp) ==
    [ZeroTf EXCEPT !.tf_ds = GD_KD, !.tf_es = GD_KD, !.tf_ss = GD_KD,
                   !.tf_cs = GD_KT, !.tf_rsp = sp,
                   !.tf_rflags = BitOr(FL_IF, FL_IOPL_0)]

\* AllocEnv with the assignment of line 187 left out
AllocEnvNoType(old, idx, parent_id, type, sp) ==
    [old EXCEPT !.env_id = ToSigned(BitOr(ToUnsigned(
                                 LET g == ToSigned(BitAnd(ToUnsigned(
                                              old.env_id + 2 ^ ENVGENSHIFT),
                                              BitNot(NENV - 1)))
                                 IN IF g <= 0 THEN 2 ^ ENVGENSHIFT ELSE g), idx)),
                !.env_parent_id = parent_id,
                !.env_status = ENV_RUNNABLE,
                !.env_runs = 0,
                !.env_tf = [ZeroTf EXCEPT !.tf_ds = GD_KD, !.tf_es = GD_KD,
                                          !.tf_ss = GD_KD, !.tf_cs = GD_KT,
                                          !.tf_rsp = sp, !.tf_rflags = FL_IF]]

\* lines 183-217: the record env_alloc leaves in the slot
AllocEnv(old, idx, parent_id, type, sp) ==
    [old EXCEPT !.env_id = MkEnvId(Generation(old.env_id), idx),
                !.env_parent_id = parent_id,
                !.env_type = type,
                !.env_status = ENV_RUNNABLE,
                !.env_runs = 0,
                !.env_tf = AllocTf(sp)]

\* the serial number of the next successful env_alloc call
Serial == (STACK_TOP_INIT - stack_top) \div USTACKSIZE + 1

\* the serial number of the environment that was given identifier parent_id
CreatorSerial(parent_id) ==
    IF parent_id \in IssuableIds /\ envs[ENVX(parent_id)].env_id = parent_id
    THEN lineage[ENVX(parent_id)].self
    ELSE 0

EnvAlloc(parent_id, type) ==
    /\ Idle
    /\ IF env_free_list = NULL
       THEN /\ last' = Call("env_alloc", NULL, parent_id, type,
                            0 - E_NO_FREE_ENV, NULL, "return")
            /\ UNCHANGED <<envs, env_free_list, curenv, stack_top, destroying,
                           retired, lineage, mem, icode, cpus>>
       ELSE LET env == env_free_list IN
            /\ envs' = [envs EXCEPT
                          ![env] = AllocEnv(envs[env], env, parent_id, type,
                                            stack_top)]
            /\ stack_top' = stack_top - USTACKSIZE
            /\ env_free_list' = envs[env].env_link
            /\ last' = Call("env_alloc", NULL, parent_id, type, 0, env, "return")
            /\ retired' = [id \in IssuableIds |->
                             IF ENVX(id) = env /\ retired[id] >= 0
                             THEN retired[id] + 1 ELSE retired[id]]
            /\ lineage' = [lineage EXCEPT
                             ![env] = [self |-> Serial,
                                       creator |-> CreatorSerial(parent_id)]]
            /\ UNCHANGED <<curenv, destroying, mem, icode, cpus>>

\* fewer than n calls of env_alloc have succeeded, or the next one fails
AllocsBelow(n) ==
    env_free_list = NULL \/ stack_top > STACK_TOP_INIT - n * USTACKSIZE

\* the parent identifiers callers pass: none, or the current environment's
ParentIds == {0} \cup (IF curenv = NULL THEN {} ELSE {envs[curenv].env_id})

---------------------------------------------------------------------------
(* env_free                                                                *)

\* lines 529-531 with the link of line 530 left out
FreedEnvsNoLink(E, head, env) ==
    [E EXCEPT ![env].env_status = ENV_FREE]

\* lines 529-531 applied to table E with free-list head `head`
FreedEnvs(E, head, env) ==
    [E EXCEPT ![env].env_status = ENV_FREE, ![env].env_link = head]

\* the history of freed identifiers after env is freed
Retire(env) ==
    IF envs[env].env_id \in IssuableIds
    THEN [retired EXCEPT ![envs[env].env_id] = 0]
    ELSE retired

\* the environments callers hold pointers to: slots that are not free
Live == {e \in Slots : envs[e].env_status # ENV_FREE}

\* the identifiers that name an environment: those of the slots not FREE
ValidIds == {envs[e].env_id : e \in Live}

\* env_free that also clears the identifier and the trap frame of the slot
EnvFreeCleared(env) ==
    /\ Idle
    /\ env \in Live
    /\ envs' = [FreedEnvs(envs, env_free_list, env) EXCEPT
                  ![env].env_id = 0, ![env].env_tf = ZeroTf]
    /\ env_free_list' = env
    /\ retired' = Retire(env)
    /\ last' = Call("env_free", env, 0, 0, 0, NULL, "return")
    /\ UNCHANGED <<curenv, stack_top, destroying, lineage, mem, icode, cpus>>

EnvFree(env) ==
    /\ Idle
    /\ env \in Live
    /\ envs' = FreedEnvs(envs, env_free_list, env)
    /\ env_free_list' = env
    /\ retired' = Retire(env)
    /\ last' = Call("env_free", env, 0, 0, 0, NULL, "return")
    /\ UNCHANGED <<curenv, stack_top, destroying, lineage, mem, icode, cpus>>

---------------------------------------------------------------------------
(* env_destroy, csys_exit                                                  *)

\* line 547; the call then stands before line 548
DestroyMark(op, env) ==
    /\ envs' = [envs EXCEPT ![env].env_status = ENV_DYING]
    /\ destroying' = env
    /\ last' = Call(op, env, 0, 0, 0, NULL, "pending")
    /\ UNCHANGED <<env_free_list, curenv, stack_top, retired, lineage, mem, icode, cpus>>

EnvDestroy(env) ==
    /\ Idle
    /\ env \in Live
    /\ DestroyMark("env_destroy", env)

\* lines 548-551 with the test of line 548 left out
EnvDestroyFinishNoTest ==
    /\ destroying # NULL
    /\ envs' = [envs EXCEPT ![destroying].env_status = ENV_FREE,
                            ![destroying].env_link = env_free_list]
    /\ env_free_list' = destroying
    /\ retired' = IF envs[destroying].env_id \in IssuableIds
                  THEN [retired EXCEPT ![envs[destroying].env_id] = 0]
                  ELSE retired
    /\ last' = [last EXCEPT !.exit = "sched_yield"]
    /\ destroying' = NULL
    /\ UNCHANGED <<curenv, stack_top, lineage, mem, icode, cpus>>

\* lines 548-551
EnvDestroyFinish ==
    /\ destroying # NULL
    /\ IF destroying = curenv
       THEN /\ envs' = FreedEnvs(envs, env_free_list, destroying)
            /\ env_free_list' = destroying
            /\ retired' = Retire(destroying)
            /\ last' = [last EXCEPT !.exit = "sched_yield"]
       ELSE /\ last' = [last EXCEPT !.exit = "return"]
            /\ UNCHANGED <<envs, env_free_list, retired, lineage, mem, icode, cpus>>
    /\ destroying' = NULL
    /\ UNCHANGED <<curenv, stack_top, lineage, mem, icode, cpus>>

\* the caller of a trap-entry operation is the running environment, or
\* kernel code when there is no current environment
TrapEntry ==
    Idle /\ (IF curenv = NULL THEN TRUE
             ELSE envs[curenv].env_status = ENV_RUNNING)

CsysExit ==
    /\ TrapEntry
    /\ IF curenv = NULL
       THEN /\ last' = Call("csys_exit", NULL, 0, 0, 0, NULL, "panic")
            /\ UNCHANGED <<envs, env_free_list, curenv, stack_top, destroying,
                           retired, lineage, mem, icode, cpus>>
       ELSE DestroyMark("csys_exit", curenv)

---------------------------------------------------------------------------
(* csys_yield                                                              *)

\* the trap frames the trap entry path hands to csys_yield
TrapFrames ==
    {[tf_regs |-> 1, tf_es |-> GD_KD, tf_ds |-> GD_KD, tf_rip |-> USTACKSIZE,
      tf_cs |-> GD_KT, tf_rflags |-> FL_IF, tf_rsp |-> STACK_TOP_INIT - USTACKSIZE,
      tf_ss |-> GD_KD]}

\* with curenv NULL the memcpy of line 562 writes through a null pointer:
\* the kernel faults, or the write lands outside the table and it goes on
CsysYield(tf, outcome) ==
    /\ TrapEntry
    /\ IF curenv = NULL
       THEN /\ last' = Call("csys_yield", NULL, 0, 0, 0, NULL, outcome)
            /\ UNCHANGED envs
       ELSE /\ outcome = "sched_yield"
            /\ envs' = [envs EXCEPT ![curenv].env_tf = tf]
            /\ last' = Call("csys_yield", curenv, 0, 0, 0, NULL, "sched_yield")
    /\ UNCHANGED <<env_free_list, curenv, stack_top, destroying, retired, lineage, mem, icode, cpus>>

---------------------------------------------------------------------------
(* env_run                                                                 *)

\* lines 656-664 took the free-and-yield path
RunYields(env) ==
    curenv # NULL /\ envs[curenv].env_status = ENV_DYING /\ curenv = env

\* lines 656-664 with the branch of lines 661-663 left out
RunOldNoDemote(E) ==
    IF curenv = NULL THEN E
    ELSE IF E[curenv].env_status = ENV_DYING
    THEN FreedEnvs(E, env_free_list, curenv)
    ELSE E

\* lines 656-664: the table after the current environment is dealt with
RunOld(E) ==
    IF curenv = NULL THEN E
    ELSE IF E[curenv].env_status = ENV_DYING
    THEN FreedEnvs(E, env_free_list, curenv)
    ELSE IF E[curenv].env_status = ENV_RUNNING
    THEN [E EXCEPT ![curenv].env_status = ENV_RUNNABLE]
    ELSE E

\* lines 666-668 with the increment of line 668 left out
RunNewNoCount(E, env) ==
    [E EXCEPT ![env].env_status = ENV_RUNNING]

\* lines 666-668
RunNew(E, env) ==
    [E EXCEPT ![env].env_status = ENV_RUNNING,
              ![env].env_runs = E[env].env_runs + 1]

\* env's run counter is below n, or env_run(env) does not dispatch
RunsBelow(env, n) == RunYields(env) \/ envs[env].env_runs < n

\* env_run is called by the scheduler, also from a trap that arrives while
\* the current environment stands in env_destroy on itself (that call never
\* resumes: env_run frees its environment)
EnvRun(env) ==
    /\ last.exit \notin {"panic", "fault"}
    /\ destroying = NULL \/ destroying = curenv
    /\ env \in Live
    /\ LET frees == curenv # NULL /\ envs[curenv].env_status = ENV_DYING IN
       /\ IF frees
          THEN env_free_list' = curenv /\ retired' = Retire(curenv)
          ELSE UNCHANGED <<env_free_list, retired, lineage, mem, icode, cpus>>
       /\ IF RunYields(env)
          THEN /\ envs' = RunOld(envs)
               /\ last' = Call("env_run", env, 0, 0, 0, NULL, "sched_yield")
               /\ UNCHANGED curenv
          ELSE /\ envs' = RunNew(RunOld(envs), env)
               /\ curenv' = env
               /\ last' = Call("env_run", env, 0, 0, 0, NULL, "env_pop_tf")
    /\ destroying' = NULL
    /\ UNCHANGED <<stack_top, lineage, mem, icode, cpus>>

---------------------------------------------------------------------------
(* ELF images: the values load_icode and bind_functions read.              *)

\* width in bits of size_t, uintptr_t and of a pointer (64 in the source),
\* narrowed; sums of offsets and sizes wrap round modulo 2^AddrBits
AddrBits == 12
\* env_create calls made
MaxCreates == 1

AddrModulus == 2 ^ AddrBits

\* unsigned addition and subtraction in size_t and uintptr_t
AddrAdd(a, b) == (a + b) % AddrModulus
AddrSub(a, b) == (a - b) % AddrModulus

\* sizeof(struct Elf), sizeof(struct Secthdr), sizeof(struct Proghdr),
\* sizeof(struct Elf64_Sym), sizeof(void *)
SizeofElf == 64
SizeofSecthdr == 64
SizeofProghdr == 56
SizeofSym == 24
SizeofPtr == 8

\* the upper bound of user addresses (inc/memlayout.h), set at the middle of
\* the narrowed address space
UTOP == AddrModulus \div 2

\* the value of the pointer `binary`: the image lies in kernel memory
BINARY == UTOP + SizeofElf

\* values of inc/elf.h and inc/error.h
ELF_MAGIC == 1179403647
ELFCLASS64 == 2
ELFDATA2LSB == 1
EV_CURRENT == 1
ET_EXEC == 2
EM_AMD64 == 62
ELF_SHT_SYMTAB == 2
ELF_SHT_STRTAB == 3
ELF_PROG_LOAD == 1
STB_GLOBAL == 1
STT_OBJECT == 1
STV_DEFAULT == 0
E_INVALID_EXE == 8

\* ELF64_ST_BIND and ELF64_ST_TYPE
ELF64_ST_BIND(st_info) == st_info \div 16
ELF64_ST_TYPE(st_info) == st_info % 16

\* byte k of the little-endian representation of value
RECURSIVE LEByte(_, _)
LEByte(value, k) ==
    IF k = 0 THEN value % 256 ELSE LEByte(value \div 256, k - 1)

\* where the base image keeps its parts
PhOff == SizeofElf
ShOff == PhOff + 2 * SizeofProghdr
ShstrOff == ShOff + 3 * SizeofSecthdr
\* a NUL, then ".symtab", ".strtab" and ".shstrtab" with their terminators
ShstrSize == 1 + 8 + 8 + 10
StrOff == ShstrOff + ShstrSize
\* a NUL, then "sys_yield" with its terminator
StrSize == 1 + 10
SymOff == StrOff + StrSize + 2
DataOff == SymOff + SizeofSym
BaseSize == DataOff + 8

\* where the base image is loaded
BaseVa == 2 * SizeofPtr

\* the address of a kernel function the resolver knows
KernFn == BINARY - SizeofPtr

\* a valid image: two program headers, of which the first is loadable; a
\* symbol table with one bindable symbol, ".strtab" and ".shstrtab".
\* ph, sh and syms are the tables at PhOff, ShOff and SymOff; strs holds the
\* strings by the offset they start at; zeros the offsets past the header
\* that hold a zero byte; junk_* what a read outside the buffer or between
\* table entries yields; found the names the resolver find_function knows
BaseImage ==
    [size |-> BaseSize,
     e_magic |-> ELF_MAGIC,
     e_elf |-> <<ELFCLASS64, ELFDATA2LSB, EV_CURRENT>>,
     e_pad |-> 0,
     e_type |-> ET_EXEC,
     e_machine |-> EM_AMD64,
     e_entry |-> BaseVa,
     e_phoff |-> PhOff,
     e_shoff |-> ShOff,
     e_ehsize |-> SizeofElf,
     e_phentsize |-> SizeofProghdr,
     e_phnum |-> 2,
     e_shentsize |-> SizeofSecthdr,
     e_shnum |-> 3,
     e_shstrndx |-> 2,
     ph |-> << [p_type |-> ELF_PROG_LOAD, p_offset |-> DataOff,
                p_va |-> BaseVa, p_filesz |-> 2, p_memsz |-> 10],
               [p_type |-> 0, p_offset |-> DataOff + 4,
                p_va |-> BaseVa + 16, p_filesz |-> 1, p_memsz |-> 2] >>,
     sh |-> << [sh_name |-> 1, sh_type |-> ELF_SHT_SYMTAB, sh_offset |-> SymOff,
                sh_size |-> SizeofSym, sh_entsize |-> SizeofSym],
               [sh_name |-> 9, sh_type |-> ELF_SHT_STRTAB, sh_offset |-> StrOff,
                sh_size |-> StrSize, sh_entsize |-> 0],
               [sh_name |-> 17, sh_type |-> ELF_SHT_STRTAB,
                sh_offset |-> ShstrOff, sh_size |-> ShstrSize,
                sh_entsize |-> 0] >>,
     syms |-> << [st_name |-> 1, st_info |-> 16 * STB_GLOBAL + STT_OBJECT,
                  st_other |-> STV_DEFAULT, st_value |-> BaseVa,
                  st_size |-> SizeofPtr] >>,
     strs |-> (ShstrOff + 1 :> ".symtab" @@ ShstrOff + 9 :> ".strtab"
               @@ ShstrOff + 17 :> ".shstrtab" @@ StrOff + 1 :> "sys_yield"),
     zeros |-> {ShstrOff, ShstrOff + ShstrSize - 1, StrOff, StrOff + StrSize - 1},
     junk_sh |-> [sh_name |-> 0, sh_type |-> 0, sh_offset |-> 0, sh_size |-> 0,
                  sh_entsize |-> 0],
     junk_ph |-> [p_type |-> 0, p_offset |-> 0, p_va |-> 0, p_filesz |-> 0,
                  p_memsz |-> 0],
     junk_sym |-> [st_name |-> 0, st_info |-> 0, st_other |-> 0, st_value |-> 0,
                   st_size |-> 0],
     junk_str |-> "?",
     junk_byte |-> 1,
     found |-> {"sys_yield"}]

\* byte `off` of the struct Elf at the start of the buffer
HeaderByte(img, off) ==
    IF off < 4 THEN LEByte(img.e_magic, off)
    ELSE IF off < 7 THEN img.e_elf[off - 3]
    ELSE IF off < 16 THEN img.e_pad
    ELSE IF off < 18 THEN LEByte(img.e_type, off - 16)
    ELSE IF off < 20 THEN LEByte(img.e_machine, off - 18)
    ELSE IF off < 24 THEN LEByte(EV_CURRENT, off - 20)
    ELSE IF off < 32 THEN LEByte(img.e_entry, off - 24)
    ELSE IF off < 40 THEN LEByte(img.e_phoff, off - 32)
    ELSE IF off < 48 THEN LEByte(img.e_shoff, off - 40)
    ELSE IF off < 52 THEN 0
    ELSE IF off < 54 THEN LEByte(img.e_ehsize, off - 52)
    ELSE IF off < 56 THEN LEByte(img.e_phentsize, off - 54)
    ELSE IF off < 58 THEN LEByte(img.e_phnum, off - 56)
    ELSE IF off < 60 THEN LEByte(img.e_shentsize, off - 58)
    ELSE IF off < 62 THEN LEByte(img.e_shnum, off - 60)
    ELSE LEByte(img.e_shstrndx, off - 62)

\* binary[off]
Byte(img, off) ==
    IF off >= img.size THEN img.junk_byte
    ELSE IF off < SizeofElf THEN HeaderByte(img, off)
    ELSE IF off \in img.zeros THEN 0
    ELSE 1 + (off % 255)

\* the string that starts at binary + off
StrAt(img, off) ==
    IF off >= img.size THEN img.junk_str
    ELSE IF off \in DOMAIN img.strs THEN img.strs[off]
    ELSE IF Byte(img, off) = 0 THEN ""
    ELSE "?"

\* the entry read at offset off, where a table of entries of size entsize
\* lies at offset base: the table's entry, or junk when off is no entry of it
TableRead(table, base, entsize, off, junk) ==
    IF off >= base /\ (off - base) % entsize = 0
       /\ (off - base) \div entsize < Len(table)
    THEN table[(off - base) \div entsize + 1]
    ELSE junk

\* sh[i], ph[i] and syms[j], the tables taken at the offsets the image names
Sh(img, i) ==
    TableRead(img.sh, ShOff, SizeofSecthdr,
              AddrAdd(img.e_shoff, i * SizeofSecthdr), img.junk_sh)
Ph(img, i) ==
    TableRead(img.ph, PhOff, SizeofProghdr,
              AddrAdd(img.e_phoff, i * SizeofProghdr), img.junk_ph)
Sym(img, sh_offset, j) ==
    TableRead(img.syms, SymOff, SizeofSym,
              AddrAdd(sh_offset, j * SizeofSym), img.junk_sym)

\* find_function(name): the address of a kernel function, or 0
FindFunction(img, name) == IF name \in img.found THEN KernFn ELSE 0

---------------------------------------------------------------------------
(* The images env_create is given: the base image with up to two of its    *)
(* fields replaced.                                                        *)

\* a replacement: of field f of the image (k = "elf"), or of field f of
\* entry i of its program header table, section table or symbol table
Patch(k, i, f, v) == [k |-> k, i |-> i, f |-> f, v |-> v]

Patches ==
    << Patch("none", 0, "", 0),
       Patch("elf", 0, "size", SizeofElf - 1),
       Patch("elf", 0, "e_magic", ELF_MAGIC - 1),
       Patch("elf", 0, "e_elf", <<1, ELFDATA2LSB, EV_CURRENT>>),
       Patch("elf", 0, "e_elf", <<ELFCLASS64, 2, EV_CURRENT>>),
       Patch("elf", 0, "e_elf", <<ELFCLASS64, ELFDATA2LSB, 0>>),
       Patch("elf", 0, "e_type", 3),
       Patch("elf", 0, "e_machine", 3),
       Patch("elf", 0, "e_pad", 1),
       Patch("elf", 0, "e_ehsize", SizeofElf - 1),
       Patch("elf", 0, "e_shentsize", SizeofSecthdr - 8),
       Patch("elf", 0, "e_phentsize", SizeofProghdr + 8),
       Patch("elf", 0, "e_shstrndx", 3),
       Patch("elf", 0, "e_shstrndx", 1),
       Patch("elf", 0, "e_shstrndx", 0),
       Patch("elf", 0, "e_shnum", 0),
       Patch("elf", 0, "e_shnum", 2),
       Patch("elf", 0, "e_shnum", 5),
       Patch("elf", 0, "e_shoff", BaseSize - SizeofSecthdr),
       Patch("elf", 0, "e_shoff", AddrModulus - 3 * SizeofSecthdr),
       Patch("elf", 0, "e_phoff", BaseSize - SizeofProghdr),
       Patch("elf", 0, "e_phoff", AddrModulus - 2 * SizeofProghdr),
       Patch("elf", 0, "e_phnum", 0),
       Patch("elf", 0, "e_phnum", 1),
       Patch("elf", 0, "e_phnum", 3),
       Patch("elf", 0, "e_entry", BaseVa - 1),
       Patch("elf", 0, "e_entry", BaseVa + 1),
       Patch("elf", 0, "e_entry", BaseVa + 9),
       Patch("elf", 0, "e_entry", BaseVa + 10),
       Patch("elf", 0, "zeros", BaseImage.zeros \ {ShstrOff + ShstrSize - 1}),
       Patch("elf", 0, "zeros", BaseImage.zeros \ {StrOff + StrSize - 1}),
       Patch("elf", 0, "junk_str", ".strtab"),
       Patch("elf", 0, "junk_byte", 0),
       Patch("elf", 0, "junk_sh", BaseImage.sh[3]),
       Patch("elf", 0, "junk_sym", BaseImage.syms[1]),
       Patch("elf", 0, "found", {}),
       Patch("sh", 3, "sh_type", 1),
       Patch("sh", 3, "sh_offset", BaseSize - 1),
       Patch("sh", 3, "sh_offset", AddrModulus - 1),
       Patch("sh", 3, "sh_size", 0),
       Patch("sh", 3, "sh_size", BaseSize),
       Patch("sh", 3, "sh_name", ShstrSize + 1),
       Patch("sh", 2, "sh_type", 1),
       Patch("sh", 2, "sh_offset", BaseSize - 1),
       Patch("sh", 2, "sh_size", 0),
       Patch("sh", 2, "sh_name", 1),
       Patch("sh", 1, "sh_type", 1),
       Patch("sh", 1, "sh_offset", BaseSize - 1),
       Patch("sh", 1, "sh_size", SizeofSym + 1),
       Patch("sh", 1, "sh_size", 2 * SizeofSym),
       Patch("sh", 1, "sh_entsize", SizeofSym - 8),
       Patch("ph", 1, "p_type", 0),
       Patch("ph", 1, "p_va", UTOP - 11),
       Patch("ph", 1, "p_va", UTOP - 10),
       Patch("ph", 1, "p_va", UTOP - 9),
       Patch("ph", 1, "p_va", AddrModulus - 2),
       Patch("ph", 1, "p_memsz", 0),
       Patch("ph", 1, "p_memsz", 1),
       Patch("ph", 1, "p_memsz", 2),
       Patch("ph", 1, "p_memsz", AddrModulus - BaseVa),
       Patch("ph", 1, "p_filesz", 0),
       Patch("ph", 1, "p_filesz", 10),
       Patch("ph", 1, "p_filesz", 12),
       Patch("ph", 1, "p_offset", BaseSize - 2),
       Patch("ph", 1, "p_offset", BaseSize - 1),
       Patch("ph", 1, "p_offset", AddrModulus - 1),
       Patch("ph", 2, "p_type", ELF_PROG_LOAD),
       Patch("sym", 1, "st_info", 16 * STB_GLOBAL),
       Patch("sym", 1, "st_info", STT_OBJECT),
       Patch("sym", 1, "st_other", 1),
       Patch("sym", 1, "st_size", SizeofPtr \div 2),
       Patch("sym", 1, "st_name", 0),
       Patch("sym", 1, "st_name", StrSize + 1),
       Patch("sym", 1, "st_value", BaseVa - 1),
       Patch("sym", 1, "st_value", BaseVa + 2),
       Patch("sym", 1, "st_value", BaseVa + 10),
       Patch("sym", 1, "st_value", BaseVa + 11) >>

\* the image with the replacement made
Apply(img, p) ==
    CASE p.k = "elf" -> [img EXCEPT ![p.f] = p.v]
      [] p.k = "ph" -> [img EXCEPT !.ph[p.i][p.f] = p.v]
      [] p.k = "sh" -> [img EXCEPT !.sh[p.i][p.f] = p.v]
      [] p.k = "sym" -> [img EXCEPT !.syms[p.i][p.f] = p.v]
      [] OTHER -> img

\* the base image with replacements a and b made
Image(a, b) == Apply(Apply(BaseImage, Patches[a]), Patches[b])

---------------------------------------------------------------------------
(* bind_functions                                                          *)

\* the result of a failed check
InvalidExe == 0 - E_INVALID_EXE

\* memcpy((void *)st_value, &addr, sizeof(void *)): the bytes written
PtrWrites(st_value, addr) ==
    [a \in {AddrAdd(st_value, k) : k \in 0 .. SizeofPtr - 1} |->
        LEByte(addr, AddrSub(a, st_value))]

\* lines 245-256 from section i on: the index of the section named
\* ".strtab", e_shnum when there is none, or -1 when a name offset lies
\* beyond the section name table
RECURSIVE FindStrtab(_, _)
FindStrtab(img, i) ==
    LET strsec == Sh(img, img.e_shstrndx)
        shstr == AddrAdd(BINARY, strsec.sh_offset)
    IN IF i >= img.e_shnum THEN img.e_shnum
       ELSE IF Sh(img, i).sh_name > strsec.sh_size THEN 0 - 1
       ELSE IF /\ Sh(img, i).sh_type = ELF_SHT_STRTAB
               /\ StrAt(img, AddrSub(AddrAdd(shstr, Sh(img, i).sh_name),
                                     BINARY)) = ".strtab"
       THEN i
       ELSE FindStrtab(img, i + 1)

\* lines 302-305: the symbol is one bind_functions binds
Bindable(sym) ==
    /\ ELF64_ST_BIND(sym.st_info) = STB_GLOBAL
    /\ ELF64_ST_TYPE(sym.st_info) = STT_OBJECT
    /\ sym.st_other = STV_DEFAULT
    /\ sym.st_size = SizeofPtr

\* lines 300-327 from symbol j of the symbol table at sh_offset on, with w
\* the bytes written so far
RECURSIVE BindSyms(_, _, _, _, _, _, _, _)
BindSyms(img, sh_offset, nsyms, j, strtab, image_start, image_end, w) ==
    IF j >= nsyms THEN [r |-> 0, w |-> w]
    ELSE LET sym == Sym(img, sh_offset, j)
             strings == AddrAdd(BINARY, Sh(img, strtab).sh_offset)
             name == AddrAdd(strings, sym.st_name)
             addr == FindFunction(img, StrAt(img, AddrSub(name, BINARY)))
         IN IF ~Bindable(sym)
            THEN BindSyms(img, sh_offset, nsyms, j + 1, strtab,
                          image_start, image_end, w)
            ELSE IF name > AddrAdd(strings, Sh(img, strtab).sh_size)
            THEN [r |-> InvalidExe, w |-> w]
            ELSE IF sym.st_value < image_start \/ sym.st_value > image_end
            THEN [r |-> InvalidExe, w |-> w]
            ELSE BindSyms(img, sh_offset, nsyms, j + 1, strtab,
                          image_start, image_end,
                          IF addr # 0 THEN PtrWrites(sym.st_value, addr) @@ w
                          ELSE w)

\* lines 281-329 from section i on
RECURSIVE BindSections(_, _, _, _, _, _)
BindSections(img, i, strtab, image_start, image_end, w) ==
    IF i >= img.e_shnum THEN [r |-> 0, w |-> w]
    ELSE LET sec == Sh(img, i) IN
         IF sec.sh_type # ELF_SHT_SYMTAB
         THEN BindSections(img, i + 1, strtab, image_start, image_end, w)
         ELSE IF AddrAdd(sec.sh_offset, sec.sh_size) > img.size
         THEN [r |-> InvalidExe, w |-> w]
         ELSE IF sec.sh_entsize # SizeofSym
         THEN [r |-> InvalidExe, w |-> w]
         ELSE LET res == BindSyms(img, sec.sh_offset,
                                  sec.sh_size \div SizeofSym, 0, strtab,
                                  image_start, image_end, w)
              IN IF res.r < 0 THEN res
                 ELSE BindSections(img, i + 1, strtab, image_start,
                                   image_end, res.w)

\* bind_functions(e, binary, size, image_start, image_end): its result and
\* the bytes it writes
BindFunctions(img, image_start, image_end) ==
    LET strsec == Sh(img, img.e_shstrndx)
        shstr == AddrAdd(BINARY, strsec.sh_offset)
        strtab == FindStrtab(img, 0)
        none == [r |-> 0, w |-> << >>]
        bad == [r |-> InvalidExe, w |-> << >>]
    IN IF AddrAdd(shstr, strsec.sh_size) > BINARY + img.size THEN bad
       ELSE IF strtab < 0 THEN bad
       ELSE IF strtab = img.e_shnum THEN none
       ELSE LET sec == Sh(img, strtab)
                strings == AddrAdd(BINARY, sec.sh_offset)
            IN IF AddrAdd(strings, sec.sh_size) > BINARY + img.size THEN bad
               ELSE IF sec.sh_size = 0 THEN bad
               ELSE IF Byte(img, AddrSub(AddrAdd(sec.sh_offset, sec.sh_size),
                                         1)) # 0
               THEN bad
               ELSE BindSections(img, 0, strtab, image_start, image_end,
                                 << >>)

---------------------------------------------------------------------------
(* load_icode                                                              *)

MIN(a, b) == IF a < b THEN a ELSE b
MAX(a, b) == IF a > b THEN a ELSE b

\* SegmentWrites with the memset of line 474 left out
SegmentWritesNoZeroFill(img, ph) ==
    [a \in {AddrAdd(ph.p_va, k) :
               k \in 0 .. MIN(ph.p_filesz, ph.p_memsz) - 1} |->
        Byte(img, AddrAdd(ph.p_offset, AddrSub(a, ph.p_va)))]

\* lines 473-474: the bytes memcpy and memset write for a segment
SegmentWrites(img, ph) ==
    LET filesz == MIN(ph.p_filesz, ph.p_memsz) IN
    [a \in {AddrAdd(ph.p_va, k) : k \in 0 .. ph.p_memsz - 1} |->
        IF AddrSub(a, ph.p_va) < filesz
        THEN Byte(img, AddrAdd(ph.p_offset, AddrSub(a, ph.p_va)))
        ELSE 0]

\* lines 448-476 from program header i on; st holds min_addr, max_addr, the
\* bytes written so far and the result
RECURSIVE LoadSegments(_, _, _)
LoadSegments(img, i, st) ==
    IF i >= img.e_phnum THEN st
    ELSE LET ph == Ph(img, i) IN
         IF ph.p_type # ELF_PROG_LOAD THEN LoadSegments(img, i + 1, st)
         ELSE LET memsz == ph.p_memsz
                  filesz == MIN(ph.p_filesz, memsz)
                  src == AddrAdd(BINARY, ph.p_offset)
                  seen == [st EXCEPT
                              !.min_addr = MIN(st.min_addr, ph.p_va),
                              !.max_addr = MAX(st.max_addr,
                                               AddrAdd(ph.p_va, ph.p_memsz))]
              IN IF AddrAdd(src, filesz) > BINARY + img.size
                 THEN [seen EXCEPT !.r = InvalidExe]
                 ELSE IF AddrAdd(ph.p_va, memsz) > UTOP
                 THEN [seen EXCEPT !.r = InvalidExe]
                 ELSE LoadSegments(img, i + 1,
                          [seen EXCEPT !.w = SegmentWrites(img, ph) @@ st.w])

\* lines 448-476 from program header i on: the offsets into the buffer of
\* the bytes the memcpy of line 473 reads, up to the segment that is rejected
RECURSIVE LoadReads(_, _)
LoadReads(img, i) ==
    IF i >= img.e_phnum THEN {}
    ELSE LET ph == Ph(img, i) IN
         IF ph.p_type # ELF_PROG_LOAD THEN LoadReads(img, i + 1)
         ELSE LET memsz == ph.p_memsz
                  filesz == MIN(ph.p_filesz, memsz)
                  src == AddrAdd(BINARY, ph.p_offset)
              IN IF AddrAdd(src, filesz) > BINARY + img.size THEN {}
                 ELSE IF AddrAdd(ph.p_va, memsz) > UTOP THEN {}
                 ELSE {AddrAdd(ph.p_offset, k) : k \in 0 .. filesz - 1}
                         \cup LoadReads(img, i + 1)

\* lines 374-445: the header, section table, string table and program
\* header table pass the checks
HeadersPass(img) ==
    LET strsec == Sh(img, img.e_shstrndx) IN
    /\ ~(img.size < SizeofElf)
    /\ ~(\/ img.e_magic # ELF_MAGIC
         \/ img.e_elf[1] # ELFCLASS64
         \/ img.e_elf[2] # ELFDATA2LSB
         \/ img.e_elf[3] # EV_CURRENT
         \/ img.e_type # ET_EXEC
         \/ img.e_machine # EM_AMD64)
    /\ ~(img.e_ehsize < SizeofElf)
    /\ ~(img.e_shentsize # SizeofSecthdr)
    /\ ~(img.e_phentsize # SizeofProghdr)
    /\ ~(img.e_shstrndx >= img.e_shnum)
    /\ ~(AddrAdd(AddrAdd(BINARY, img.e_shoff), img.e_shnum * SizeofSecthdr)
            > BINARY + img.size)
    /\ ~(strsec.sh_type # ELF_SHT_STRTAB)
    /\ ~(AddrAdd(strsec.sh_offset, strsec.sh_size) > img.size)
    /\ ~(strsec.sh_size = 0)
    /\ ~(Byte(img, AddrSub(AddrAdd(strsec.sh_offset, strsec.sh_size), 1)) # 0)
    /\ ~(AddrAdd(AddrAdd(BINARY, img.e_phoff), img.e_phnum * SizeofProghdr)
            > BINARY + img.size)

\* load_icode(env, binary, size): its result r, whether line 490 set tf_rip,
\* the bytes written when it left the segment loop (loaded) and the bytes
\* bind_functions wrote (bound)
LoadIcode(img) ==
    LET bad == [r |-> InvalidExe, rip |-> FALSE, loaded |-> << >>,
                bound |-> << >>]
    IN IF ~HeadersPass(img) THEN bad
       ELSE LET st == LoadSegments(img, 0,
                         [min_addr |-> UTOP, max_addr |-> 0, w |-> << >>,
                          r |-> 0])
            IN IF st.r < 0 THEN [bad EXCEPT !.loaded = st.w]
               ELSE IF st.max_addr <= st.min_addr \/ st.max_addr >= UTOP
               THEN [bad EXCEPT !.loaded = st.w]
               ELSE IF img.e_entry >= st.max_addr \/ img.e_entry < st.min_addr
               THEN [bad EXCEPT !.loaded = st.w]
               ELSE LET res == BindFunctions(img, st.min_addr, st.max_addr)
                    IN [r |-> IF res.r < 0 THEN InvalidExe ELSE 0,
                        rip |-> TRUE, loaded |-> st.w, bound |-> res.w]

---------------------------------------------------------------------------
(* env_create                                                              *)

\* fewer than n calls of env_create have been made
CreatesBelow(n) == stack_top > STACK_TOP_INIT - n * USTACKSIZE

\* env_create(binary, size, type), with img the image at binary (binary 0:
\* a null pointer)
EnvCreate(binary, img, type) ==
    /\ Idle
    /\ IF binary = 0 \/ env_free_list = NULL
       THEN /\ last' = Call("env_create", NULL, 0, type, 0, NULL, "panic")
            /\ UNCHANGED <<envs, env_free_list, curenv, stack_top, destroying,
                           retired, lineage, mem, icode, cpus>>
       ELSE LET env == env_free_list
                res == LoadIcode(img)
                new == AllocEnv(envs[env], env, 0, type, stack_top)
            IN /\ envs' = [envs EXCEPT
                             ![env] = IF res.rip
                                      THEN [new EXCEPT
                                               !.env_tf.tf_rip = img.e_entry]
                                      ELSE new]
               /\ stack_top' = stack_top - USTACKSIZE
               /\ env_free_list' = envs[env].env_link
               /\ retired' = [id \in IssuableIds |->
                                IF ENVX(id) = env /\ retired[id] >= 0
                                THEN retired[id] + 1 ELSE retired[id]]
               /\ lineage' = [lineage EXCEPT
                                ![env] = [self |-> Serial, creator |-> 0]]
               /\ mem' = res.bound @@ res.loaded @@ mem
               /\ icode' = [done |-> TRUE, image |-> img, env |-> env,
                            r |-> res.r, loaded |-> res.loaded,
                            bound |-> res.bound]
               /\ last' = Call("env_create", NULL, 0, type, res.r, env,
                               IF res.r < 0 THEN "panic" ELSE "return")
               /\ UNCHANGED <<curenv, destroying, cpus>>

---------------------------------------------------------------------------
(* env_alloc and env_free on two cores: each core executes its call one    *)
(* access to the shared table at a time; the file takes no lock.           *)

\* calls of env_alloc and env_free each core makes
MaxCallsSmp == 2

\* core c goes to line pc with its local env and tmp set
Goto(c, pc, env, tmp) ==
    cpus' = [cpus EXCEPT ![c].pc = pc, ![c].env = env, ![c].tmp = tmp]

\* what the steps of this section leave alone
SmpFrame == UNCHANGED <<curenv, destroying, last, retired, lineage, mem, icode>>

\* lines 176-177: the call begins and reads the head of the free list
SmpAlloc176(c) ==
    /\ cpus[c].pc = "idle"
    /\ cpus[c].calls < MaxCallsSmp
    /\ IF env_free_list = NULL
       THEN cpus' = [cpus EXCEPT ![c].calls = cpus[c].calls + 1]
       ELSE cpus' = [cpus EXCEPT ![c].pc = "180", ![c].env = env_free_list,
                                 ![c].calls = cpus[c].calls + 1]
    /\ UNCHANGED <<envs, env_free_list, stack_top>>
    /\ SmpFrame

\* lines 180-182: env->env_id is read
SmpAlloc180(c) ==
    /\ cpus[c].pc = "180"
    /\ Goto(c, "183", cpus[c].env, Generation(envs[cpus[c].env].env_id))
    /\ UNCHANGED <<envs, env_free_list, stack_top>>
    /\ SmpFrame

\* line 183
SmpAlloc183(c) ==
    /\ cpus[c].pc = "183"
    /\ envs' = [envs EXCEPT
                  ![cpus[c].env].env_id = MkEnvId(cpus[c].tmp, cpus[c].env)]
    /\ Goto(c, "186", cpus[c].env, 0)
    /\ UNCHANGED <<env_free_list, stack_top>>
    /\ SmpFrame

\* lines 186-187
SmpAlloc186(c, type) ==
    /\ cpus[c].pc = "186"
    /\ envs' = [envs EXCEPT ![cpus[c].env].env_parent_id = 0,
                            ![cpus[c].env].env_type = type]
    /\ Goto(c, "188", cpus[c].env, 0)
    /\ UNCHANGED <<env_free_list, stack_top>>
    /\ SmpFrame

\* line 188
SmpAlloc188(c) ==
    /\ cpus[c].pc = "188"
    /\ envs' = [envs EXCEPT ![cpus[c].env].env_status = ENV_RUNNABLE]
    /\ Goto(c, "189", cpus[c].env, 0)
    /\ UNCHANGED <<env_free_list, stack_top>>
    /\ SmpFrame

\* lines 189-210: the run counter, the memset and the segment selectors
SmpAlloc189(c) ==
    /\ cpus[c].pc = "189"
    /\ envs' = [envs EXCEPT
                  ![cpus[c].env].env_runs = 0,
                  ![cpus[c].env].env_tf =
                      [ZeroTf EXCEPT !.tf_ds = GD_KD, !.tf_es = GD_KD,
                                     !.tf_ss = GD_KD, !.tf_cs = GD_KT]]
    /\ Goto(c, "213", cpus[c].env, 0)
    /\ UNCHANGED <<env_free_list, stack_top>>
    /\ SmpFrame

\* line 213: stack_top is read into the trap frame
SmpAlloc213(c) ==
    /\ cpus[c].pc = "213"
    /\ envs' = [envs EXCEPT ![cpus[c].env].env_tf.tf_rsp = stack_top]
    /\ Goto(c, "214", cpus[c].env, 0)
    /\ UNCHANGED <<env_free_list, stack_top>>
    /\ SmpFrame

\* line 214, the read of stack_top
SmpAlloc214(c) ==
    /\ cpus[c].pc = "214"
    /\ Goto(c, "214w", cpus[c].env, stack_top)
    /\ UNCHANGED <<envs, env_free_list, stack_top>>
    /\ SmpFrame

\* line 214, the write of stack_top
SmpAlloc214w(c) ==
    /\ cpus[c].pc = "214w"
    /\ stack_top' = cpus[c].tmp - USTACKSIZE
    /\ Goto(c, "217", cpus[c].env, 0)
    /\ UNCHANGED <<envs, env_free_list>>
    /\ SmpFrame

\* line 217
SmpAlloc217(c) ==
    /\ cpus[c].pc = "217"
    /\ envs' = [envs EXCEPT
                  ![cpus[c].env].env_tf.tf_rflags = BitOr(FL_IF, FL_IOPL_0)]
    /\ Goto(c, "220", cpus[c].env, 0)
    /\ UNCHANGED <<env_free_list, stack_top>>
    /\ SmpFrame

\* line 220, the read of env->env_link
SmpAlloc220(c) ==
    /\ cpus[c].pc = "220"
    /\ Goto(c, "220w", cpus[c].env, envs[cpus[c].env].env_link)
    /\ UNCHANGED <<envs, env_free_list, stack_top>>
    /\ SmpFrame

\* line 220, the write of env_free_list
SmpAlloc220w(c) ==
    /\ cpus[c].pc = "220w"
    /\ env_free_list' = cpus[c].tmp
    /\ Goto(c, "221", cpus[c].env, 0)
    /\ UNCHANGED <<envs, stack_top>>
    /\ SmpFrame

\* lines 221-224: the slot is returned to the caller
SmpAlloc221(c) ==
    /\ cpus[c].pc = "221"
    /\ cpus' = [cpus EXCEPT ![c].pc = "idle", ![c].env = NULL, ![c].tmp = 0,
                            ![c].held = cpus[c].held \cup {cpus[c].env}]
    /\ UNCHANGED <<envs, env_free_list, stack_top>>
    /\ SmpFrame

\* line 529: the core calls env_free on an environment env_alloc gave it
SmpFree529(c, env) ==
    /\ cpus[c].pc = "idle"
    /\ cpus[c].calls < MaxCallsSmp
    /\ env \in cpus[c].held
    /\ envs' = [envs EXCEPT ![env].env_status = ENV_FREE]
    /\ cpus' = [cpus EXCEPT ![c].pc = "530", ![c].env = env,
                            ![c].held = cpus[c].held \ {env},
                            ![c].calls = cpus[c].calls + 1]
    /\ UNCHANGED <<env_free_list, stack_top>>
    /\ SmpFrame

\* line 530, the read of env_free_list
SmpFree530(c) ==
    /\ cpus[c].pc = "530"
    /\ Goto(c, "530w", cpus[c].env, env_free_list)
    /\ UNCHANGED <<envs, env_free_list, stack_top>>
    /\ SmpFrame

\* line 530, the write of env->env_link
SmpFree530w(c) ==
    /\ cpus[c].pc = "530w"
    /\ envs' = [envs EXCEPT ![cpus[c].env].env_link = cpus[c].tmp]
    /\ Goto(c, "531", cpus[c].env, 0)
    /\ UNCHANGED <<env_free_list, stack_top>>
    /\ SmpFrame

\* line 531: the slot becomes the head, and env_free returns
SmpFree531(c) ==
    /\ cpus[c].pc = "531"
    /\ env_free_list' = cpus[c].env
    /\ Goto(c, "idle", NULL, 0)
    /\ UNCHANGED <<envs, stack_top>>
    /\ SmpFrame

---------------------------------------------------------------------------
(* The free list as a set of slots.                                        *)

\* the slots reached from slot `env` along env_link in at most n steps
RECURSIVE Reach(_, _)
Reach(env, n) ==
    IF env = NULL \/ n = 0 THEN {}
    ELSE {env} \cup Reach(envs[env].env_link, n - 1)

FreeListSlots == Reach(env_free_list, NENV)

\* envid2env without permission checking fails with -E_BAD_ENV, storing NULL
LookupFails(envid) ==
    Envid2env(envid, FALSE, 0) =
        [r |-> 0 - E_BAD_ENV, env_store |-> NULL, exit |-> "return"]

---------------------------------------------------------------------------
(* C1 *)

\* C1 as stated: the lookup of every identifier whose environment has been
\* freed fails with -E_BAD_ENV and stores NULL, while the slot is FREE and
\* after any number of reallocations of the slot.
C1_StaleIdAlwaysFails ==
    \A id \in IssuableIds : retired[id] >= 0 => LookupFails(id)

\* C1 amended: the lookup of an identifier whose environment has been freed
\* fails with -E_BAD_ENV and stores NULL while the slot is FREE, and after
\* the slot has been reallocated unless the number of reallocations since is
\* a multiple of the number of generations (the generation has wrapped round
\* to the identifier's own); in that case the slot holds the identifier
\* again and the lookup succeeds on the new occupant.
C1_StaleIdFailsUntilWrap ==
    \A id \in IssuableIds :
        retired[id] >= 0 =>
            IF envs[ENVX(id)].env_status = ENV_FREE
               \/ retired[id] % NumGenerations # 0
            THEN LookupFails(id)
            ELSE Envid2env(id, FALSE, 0) =
                     [r |-> 0, env_store |-> ENVX(id), exit |-> "return"]

\* a freed identifier was looked up after its slot was reallocated, and failed
C1_Witness ==
    /\ last.op = "envid2env" /\ last.envid \in IssuableIds
    /\ retired[last.envid] >= 1
    /\ envs[ENVX(last.envid)].env_status # ENV_FREE
    /\ last.r = 0 - E_BAD_ENV /\ last.env_store = NULL

---------------------------------------------------------------------------
(* C2 *)

\* the step is a call of env_run
IsRun == last'.op = "env_run" /\ vars' # vars

\* C2 as stated: an env_run call in which a DYING environment is the current
\* environment or the dispatch target leaves it FREE, and an environment that
\* is FREE is not given status RUNNING (only env_alloc takes it out of FREE).
C2_DyingReclaimedByRun ==
    [][\A e \in Slots :
          /\ (IsRun /\ envs[e].env_status = ENV_DYING
                    /\ (e = curenv \/ e = last'.env))
                => envs'[e].env_status = ENV_FREE
          /\ envs[e].env_status = ENV_FREE
                => envs'[e].env_status # ENV_RUNNING]_vars

---------------------------------------------------------------------------
(* C3 *)

\* C3: right after a successful env_alloc, envid2env of the new identifier
\* (no permission check) succeeds and yields the slot env_alloc returned,
\* whose status is RUNNABLE, run counter 0 and env_id the one looked up.
C3_AllocThenLookup ==
    (last.op = "env_alloc" /\ last.r = 0) =>
        LET env == last.env_store
            res == Envid2env(envs[env].env_id, FALSE, 0)
        IN /\ res.r = 0 /\ res.exit = "return"
           /\ res.env_store = env
           /\ envs[res.env_store].env_status = ENV_RUNNABLE
           /\ envs[res.env_store].env_runs = 0
           /\ envs[res.env_store].env_id = envs[env].env_id

\* env_alloc has just returned a slot other than slot 0 that it had handed
\* out before
C3_Witness ==
    /\ last.op = "env_alloc" /\ last.r = 0 /\ last.env_store # 0
    /\ envs[last.env_store].env_id > 2 * 2 ^ ENVGENSHIFT

---------------------------------------------------------------------------
(* C4 *)

\* C4 as stated: every lookup that reports success, identifier 0 included,
\* yields an environment whose status is not FREE; a nonzero identifier
\* succeeds iff the decoded slot stores exactly it and is not FREE.
C4_SuccessMeansNotFree ==
    \A id \in LookupIds :
        LET res == Envid2env(id, FALSE, 0) IN
        /\ res.r = 0 =>
              /\ res.env_store # NULL
              /\ envs[res.env_store].env_status # ENV_FREE
        /\ id # 0 =>
              (res.r = 0 <=> /\ envs[ENVX(id)].env_id = id
                             /\ envs[ENVX(id)].env_status # ENV_FREE)

\* C4 amended: a nonzero identifier succeeds iff the decoded slot stores
\* exactly it and is not FREE, and then yields that slot; identifier 0 always
\* reports success and yields curenv as it stands, which is NULL before the
\* first env_run and may be a FREE slot (env_destroy and env_run leave curenv
\* on the slot they free).
C4_NonzeroIffLive ==
    \A id \in LookupIds :
        LET res == Envid2env(id, FALSE, 0) IN
        IF id = 0
        THEN res.r = 0 /\ res.env_store = curenv
        ELSE /\ res.r = 0 <=> /\ envs[ENVX(id)].env_id = id
                              /\ envs[ENVX(id)].env_status # ENV_FREE
             /\ res.r = 0 => /\ res.env_store = ENVX(id)
                             /\ envs[res.env_store].env_status # ENV_FREE
             /\ res.r # 0 => res.r = 0 - E_BAD_ENV /\ res.env_store = NULL

\* a lookup of identifier 0 reported success and yielded a FREE slot, and a
\* stale identifier is stored in some FREE slot
C4_Witness ==
    /\ last.op = "envid2env" /\ last.envid = 0 /\ last.r = 0
    /\ last.env_store # NULL
    /\ envs[last.env_store].env_status = ENV_FREE
    /\ envs[last.env_store].env_id \in IssuableIds

---------------------------------------------------------------------------
(* C5 *)

\* x's parent identifier is c's identifier
ChildById(x, c) == envs[x].env_parent_id = envs[c].env_id

\* x was created as a child of c
ChildOf(x, c) == lineage[x].creator = lineage[c].self

\* x and c were created as children of the same environment
SiblingOf(x, c) ==
    /\ x # c /\ lineage[x].creator # 0
    /\ lineage[x].creator = lineage[c].creator

\* x was created as a child of a child of c
GrandchildOf(x, c) ==
    \E k \in Live \ {x, c} : ChildOf(k, c) /\ ChildOf(x, k)

\* x is neither c nor a child of c
UnrelatedTo(x, c) == x # c /\ ~ChildOf(x, c)

\* the step is a call of envid2env with permission checking, of a nonzero
\* identifier that names an environment, made while the current environment
\* is running
IsPermLookup ==
    /\ last'.op = "envid2env" /\ last'.flag = 1 /\ vars' # vars
    /\ curenv # NULL /\ envs[curenv].env_status = ENV_RUNNING
    /\ last'.envid \in ValidIds \ {0}

---------------------------------------------------------------------------
(* C6 *)

\* the fields env_alloc sets are set in slot env
Initialised(env) ==
    /\ envs[env].env_id \in IssuableIds /\ ENVX(envs[env].env_id) = env
    /\ envs[env].env_type \in EnvTypes
    /\ envs[env].env_parent_id \in {0} \cup IssuableIds
    /\ envs[env].env_status # ENV_FREE
    /\ envs[env].env_tf.tf_cs = GD_KT
    /\ envs[env].env_tf.tf_ds = GD_KD
    /\ envs[env].env_tf.tf_es = GD_KD
    /\ envs[env].env_tf.tf_ss = GD_KD
    /\ envs[env].env_tf.tf_rflags = FL_IF
    /\ envs[env].env_tf.tf_rsp > stack_top

\* the step is a call of env_alloc
IsAlloc == last'.op = "env_alloc" /\ vars' # vars

\* C6: env_alloc returns -E_NO_FREE_ENV exactly when the free list is empty;
\* a failing env_alloc changes no slot, nor the free list, nor stack_top; a
\* successful one leaves the arguments it was given in the slot; and in
\* every state each slot a lookup succeeds on has its identifier, parent,
\* type, status and trap frame initialised.
C6_AllocFailsIffEmpty ==
    /\ [](\A id \in LookupIds \ {0} :
             Envid2env(id, FALSE, 0).r = 0 =>
                 Initialised(Envid2env(id, FALSE, 0).env_store))
    /\ [][IsAlloc =>
            /\ last'.r = 0 - E_NO_FREE_ENV <=> env_free_list = NULL
            /\ last'.r # 0 - E_NO_FREE_ENV => last'.r = 0
            /\ last'.r # 0 =>
                  /\ last'.env_store = NULL
                  /\ UNCHANGED <<envs, env_free_list, stack_top, curenv>>
            /\ last'.r = 0 =>
                  /\ last'.env_store = env_free_list
                  /\ envs'[last'.env_store].env_parent_id = last'.envid
                  /\ envs'[last'.env_store].env_type = last'.flag
                  /\ envs'[last'.env_store].env_tf.tf_rsp = stack_top]_vars

\* env_alloc has just failed with -E_NO_FREE_ENV
C6_Witness ==
    /\ last.op = "env_alloc" /\ last.r = 0 - E_NO_FREE_ENV
    /\ env_free_list = NULL

---------------------------------------------------------------------------
(* C7 *)

\* the step is lines 548-551 of an env_destroy call
IsDestroyFinish == destroying # NULL /\ last'.op = last.op /\ last'.exit # "pending"

---------------------------------------------------------------------------
(* C8 *)

\* C8 as stated: env_run of a target that is the current environment and
\* DYING frees the target, ends in sched_yield without env_pop_tf, never
\* makes the target RUNNING, and leaves no environment recorded as current.
C8_RunDyingCurrent ==
    [][(IsRun /\ curenv # NULL /\ last'.env = curenv
              /\ envs[curenv].env_status = ENV_DYING) =>
          /\ envs'[last'.env].env_status = ENV_FREE
          /\ env_free_list' = last'.env
          /\ last'.exit = "sched_yield"
          /\ curenv' = NULL]_vars

---------------------------------------------------------------------------
(* C9 *)

\* the indices of the loadable program headers
LoadIndices(img) ==
    {i \in 0 .. img.e_phnum - 1 : Ph(img, i).p_type = ELF_PROG_LOAD}

\* the span of the loadable segments, in unbounded arithmetic
SpanMin(img) ==
    CHOOSE v \in {Ph(img, i).p_va : i \in LoadIndices(img)} :
        \A i \in LoadIndices(img) : v <= Ph(img, i).p_va
SpanMax(img) ==
    CHOOSE v \in {Ph(img, i).p_va + Ph(img, i).p_memsz : i \in LoadIndices(img)} :
        \A i \in LoadIndices(img) : v >= Ph(img, i).p_va + Ph(img, i).p_memsz

\* the header of the image has one of the defects of the first three groups
BadHeader(img) ==
    \/ img.size < SizeofElf
    \/ img.e_magic # ELF_MAGIC \/ img.e_elf # <<ELFCLASS64, ELFDATA2LSB, EV_CURRENT>>
    \/ img.e_type # ET_EXEC \/ img.e_machine # EM_AMD64
    \/ img.e_ehsize < SizeofElf
    \/ img.e_shentsize # SizeofSecthdr \/ img.e_phentsize # SizeofProghdr

\* the section header table or the program header table does not lie
\* entirely within the buffer: offsets and sizes as numbers, not modulo 2^w
BadTables(img) ==
    \/ img.e_shstrndx >= img.e_shnum
    \/ img.e_shoff + img.e_shnum * SizeofSecthdr > img.size
    \/ img.e_phoff + img.e_phnum * SizeofProghdr > img.size

\* the section e_shstrndx names is no string table, or its range does not
\* lie within the buffer, or is empty, or does not end in a NUL
BadStringTable(img) ==
    LET strsec == Sh(img, img.e_shstrndx) IN
    \/ strsec.sh_type # ELF_SHT_STRTAB
    \/ strsec.sh_offset + strsec.sh_size > img.size
    \/ strsec.sh_size = 0
    \/ Byte(img, strsec.sh_offset + strsec.sh_size - 1) # 0

\* there is no loadable segment, the span is degenerate, or the entry point
\* lies outside it
BadSpan(img) ==
    \/ LoadIndices(img) = {}
    \/ SpanMax(img) <= SpanMin(img)
    \/ img.e_entry < SpanMin(img) \/ img.e_entry >= SpanMax(img)

\* the image has one of the defects C9 lists
Defective(img) ==
    IF BadHeader(img) THEN TRUE
    ELSE IF BadTables(img) THEN TRUE
    ELSE IF BadStringTable(img) THEN TRUE
    ELSE BadSpan(img)

\* C9 as stated: load_icode returns -E_INVALID_EXE, never success, for every
\* image whose header is truncated or names the wrong format, whose header
\* or entry sizes mismatch, whose string table index is out of range or names
\* no string table, whose section or program header table does not lie
\* within the buffer, whose string table range lies outside the buffer, is
\* empty or lacks its NUL, that has no loadable segment or a degenerate span,
\* or whose entry point lies outside the loaded span.
C9_DefectiveRejected ==
    (icode.done /\ Defective(icode.image)) => icode.r = InvalidExe

---------------------------------------------------------------------------
(* C10 *)

\* the loadable program header of an image that has one
TheSegment(img) == Ph(img, CHOOSE i \in LoadIndices(img) : TRUE)

\* the sections and symbols of the image are as bind_functions requires
\* them: section names within the section name table; ".strtab", when there
\* is one, within the buffer and NUL-terminated; every symbol table within
\* the buffer and made of whole symbols that are named within ".strtab" and
\* lie within the span
ValidSymbols(img) ==
    LET secs == {Sh(img, i) : i \in 0 .. img.e_shnum - 1}
        strtab == FindStrtab(img, 0)
    IN /\ \A sec \in secs : sec.sh_name < Sh(img, img.e_shstrndx).sh_size
       /\ strtab < img.e_shnum =>
             /\ Sh(img, strtab).sh_size > 0
             /\ Sh(img, strtab).sh_offset + Sh(img, strtab).sh_size <= img.size
             /\ Byte(img, Sh(img, strtab).sh_offset
                              + Sh(img, strtab).sh_size - 1) = 0
             /\ \A sec \in secs :
                   sec.sh_type = ELF_SHT_SYMTAB =>
                      /\ sec.sh_offset + sec.sh_size <= img.size
                      /\ sec.sh_entsize = SizeofSym
                      /\ sec.sh_size % SizeofSym = 0
                      /\ \A j \in 0 .. sec.sh_size \div SizeofSym - 1 :
                            LET sym == Sym(img, sec.sh_offset, j) IN
                            /\ sym.st_name < Sh(img, strtab).sh_size
                            /\ sym.st_value >= SpanMin(img)
                            /\ sym.st_value + sym.st_size <= SpanMax(img)

\* a valid image with one loadable segment: file size at most memory size,
\* file range within the buffer, destination below UTOP, entry point inside
ValidSingleSegment(img) ==
    /\ ~Defective(img)
    /\ Cardinality(LoadIndices(img)) = 1
    /\ TheSegment(img).p_filesz <= TheSegment(img).p_memsz
    /\ TheSegment(img).p_offset + TheSegment(img).p_filesz <= img.size
    /\ TheSegment(img).p_va + TheSegment(img).p_memsz < UTOP
    /\ ValidSymbols(img)

---------------------------------------------------------------------------
(* C11 *)

\* min_addr and max_addr as load_icode hands them to bind_functions
ImageSpan(img) ==
    LoadSegments(img, 0, [min_addr |-> UTOP, max_addr |-> 0, w |-> << >>,
                          r |-> 0])

\* the symbols of the symbol tables of the image
SymsOf(img) ==
    UNION {{Sym(img, Sh(img, i).sh_offset, j) :
               j \in 0 .. Sh(img, i).sh_size \div SizeofSym - 1} :
           i \in {k \in 0 .. img.e_shnum - 1 :
                     Sh(img, k).sh_type = ELF_SHT_SYMTAB}}

\* the address the resolver gives for the name of the symbol, or 0
Resolved(img, sym) ==
    LET strings == AddrAdd(BINARY, Sh(img, FindStrtab(img, 0)).sh_offset)
    IN FindFunction(img, StrAt(img, AddrSub(AddrAdd(strings, sym.st_name),
                                            BINARY)))

\* load_icode reaches bind_functions, which finds ".strtab" and every
\* symbol table well formed (lines 237-296), and so goes through the symbols
Binds(img) ==
    LET st == ImageSpan(img)
        strtab == FindStrtab(img, 0)
    IN /\ HeadersPass(img) /\ st.r = 0
       /\ st.max_addr > st.min_addr /\ st.max_addr < UTOP
       /\ img.e_entry >= st.min_addr /\ img.e_entry < st.max_addr
       /\ strtab >= 0 /\ strtab < img.e_shnum
       /\ BindFunctions([img EXCEPT !.syms = << >>,
                              !.junk_sym = BaseImage.junk_sym],
                        st.min_addr, st.max_addr).r = 0

\* C11 as stated: bind_functions writes exactly the 8 bytes at st_value, with
\* the resolved address, of each symbol that is GLOBAL, OBJECT, DEFAULT,
\* pointer-sized and resolvable; every byte it writes lies inside
\* [image_start, image_end); a symbol that is not resolvable or that the filter
\* leaves out causes no write and no error.
C11_BindWritesInsideSpan ==
    (icode.done /\ Binds(icode.image)) =>
        LET img == icode.image
            bindable == {sym \in SymsOf(img) :
                            Bindable(sym) /\ Resolved(img, sym) # 0}
        IN /\ \A a \in DOMAIN icode.bound :
                 /\ a >= ImageSpan(img).min_addr
                 /\ a < ImageSpan(img).max_addr
                 /\ \E sym \in bindable :
                       /\ AddrSub(a, sym.st_value) < SizeofPtr
                       /\ icode.bound[a] =
                             LEByte(Resolved(img, sym),
                                    AddrSub(a, sym.st_value))
           /\ icode.r = 0 =>
                 \A sym \in bindable, k \in 0 .. SizeofPtr - 1 :
                    AddrAdd(sym.st_value, k) \in DOMAIN icode.bound
           /\ (\A sym \in SymsOf(img) :
                  ~Bindable(sym) \/ Resolved(img, sym) = 0)
                 => (icode.bound = << >> /\ icode.r = 0)

---------------------------------------------------------------------------
(* C12 *)

\* the step is the entry of a csys_exit call
IsCsysExit == last'.op = "csys_exit" /\ destroying = NULL /\ vars' # vars

\* the step is a call of csys_yield
IsCsysYield == last'.op = "csys_yield" /\ vars' # vars

\* the call stopped the kernel: by panic, or by the processor's fault
Halted(call) == call.exit \in {"panic", "fault"}

\* C12 as stated: csys_exit and csys_yield called with no current environment
\* halt without changing the table or the free list; csys_yield called with
\* a current environment copies the trap frame into that environment's saved
\* trap frame, leaves its status unchanged, and yields to the scheduler.
C12_SyscallsNeedCurenv ==
    [][/\ (IsCsysExit /\ curenv = NULL) =>
            /\ Halted(last')
            /\ envs' = envs /\ env_free_list' = env_free_list
       /\ (IsCsysYield /\ curenv = NULL) =>
            /\ Halted(last')
            /\ envs' = envs /\ env_free_list' = env_free_list
       /\ (IsCsysYield /\ curenv # NULL) =>
            /\ \E tf \in TrapFrames :
                  envs' = [envs EXCEPT ![curenv].env_tf = tf]
            /\ last'.exit = "sched_yield"
            /\ env_free_list' = env_free_list /\ curenv' = curenv]_vars

---------------------------------------------------------------------------
(* C13 *)

\* the slots met walking n links from slot `env`, in order, NULL excluded
RECURSIVE Walk(_, _)
Walk(env, n) ==
    IF env = NULL \/ n = 0 THEN << >>
    ELSE <<env>> \o Walk(envs[env].env_link, n - 1)

\* C13: in every state reached by env_alloc, env_free, env_destroy, env_run,
\* csys_exit and csys_yield the free list is acyclic, holds every FREE slot
\* exactly once, and holds no slot that is not FREE.
C13_FreeListExact ==
    LET walk == Walk(env_free_list, NENV + 1) IN
    /\ Len(walk) <= NENV
    /\ \A i, j \in 1 .. Len(walk) : walk[i] = walk[j] => i = j
    /\ {walk[i] : i \in 1 .. Len(walk)} =
          {e \in Slots : envs[e].env_status = ENV_FREE}

\* a slot was freed back onto a list of at least two slots while another
\* environment is still allocated
C13_Witness ==
    /\ env_free_list # NULL
    /\ envs[env_free_list].env_link # NULL
    /\ envs[env_free_list].env_link < env_free_list
    /\ Live # {}
    /\ last.op \in {"env_run", "csys_exit", "csys_yield", "env_free"}

---------------------------------------------------------------------------
(* C14 *)

\* the step is an env_run call that goes on to env_pop_tf
IsDispatch == IsRun /\ last'.exit = "env_pop_tf"

---------------------------------------------------------------------------
(* C15 *)

\* the slots whose status is RUNNING
Running == {e \in Slots : envs[e].env_status = ENV_RUNNING}

\* C15: in every state at most one environment is RUNNING, and an
\* environment that is RUNNING is the current one.
C15_OneRunning ==
    /\ Cardinality(Running) <= 1
    /\ \A e \in Running : curenv = e

\* the current environment is RUNNING while an environment that ran before
\* it, and one that was destroyed from outside, are in the table
C15_Witness ==
    /\ Running # {}
    /\ \E e \in Slots \ Running :
          envs[e].env_status = ENV_RUNNABLE /\ envs[e].env_runs > 0
    /\ \E e \in Slots : envs[e].env_status = ENV_DYING

---------------------------------------------------------------------------
(* C16 *)

\* the step is a successful call of env_alloc
IsAllocated == IsAlloc /\ last'.r = 0

\* the generation part of an identifier: the identifier less its slot index
GenerationOf(envid) == envid - ENVX(envid)

\* C16: the identifier env_alloc assigns is positive as a signed value of
\* the identifier's width, ENVX of it is the index of the slot, and its
\* generation is the generation of the slot's previous identifier plus the
\* stride 1 << ENVGENSHIFT, or the stride itself when that sum is not
\* positive in the identifier's width; so it is never the identifier the
\* slot held before.
C16_IdPositiveNextGeneration ==
    [][IsAllocated =>
          LET env == last'.env_store
              old == envs[env].env_id
              new == envs'[env].env_id
              sum == ToSigned(ToUnsigned(GenerationOf(old) + 2 ^ ENVGENSHIFT))
          IN /\ new > 0 /\ new < IdModulus \div 2
             /\ ENVX(new) = env
             /\ GenerationOf(new) =
                   IF sum <= 0 THEN 2 ^ ENVGENSHIFT ELSE sum
             /\ new # old]_vars

\* env_alloc has given a slot an identifier of the first generation that an
\* earlier occupant of the slot held: the generation went round
C16_Witness ==
    /\ last.op = "env_alloc" /\ last.r = 0
    /\ LET id == envs[last.env_store].env_id IN
       /\ GenerationOf(id) = 2 ^ ENVGENSHIFT
       /\ retired[id] >= 1

---------------------------------------------------------------------------
(* C17 *)

\* no environment has been freed since env_init
NoFreeYet == \A id \in IssuableIds : retired[id] < 0

\* the step frees slot e
IsFreed(e) == envs[e].env_status # ENV_FREE /\ envs'[e].env_status = ENV_FREE

\* C17: the free list is a stack seeded in ascending slot order: while no
\* environment has been freed the n-th successful env_alloc returns slot
\* n - 1 (the first one slot 0); a freed slot becomes the head, linked to the
\* old head; env_alloc returns the head and leaves its link as the head; and
\* no other step changes the head, so that an env_alloc that follows a free
\* returns the slot freed last.
C17_FreeListIsStack ==
    [][/\ (IsAllocated /\ NoFreeYet) => last'.env_store = Serial - 1
       /\ IsAllocated =>
             /\ last'.env_store = env_free_list
             /\ env_free_list' = envs[env_free_list].env_link
       /\ \A e \in Slots :
             IsFreed(e) =>
                /\ env_free_list' = e
                /\ envs'[e].env_link = env_free_list
       /\ (~IsAllocated /\ \A e \in Slots : ~IsFreed(e)) =>
             /\ env_free_list' = env_free_list
             /\ \A e \in Slots : envs'[e].env_link = envs[e].env_link]_vars

\* env_alloc has returned the slot freed last while a slot of lower index,
\* freed before it, is still free
C17_Witness ==
    /\ last.op = "env_alloc" /\ last.r = 0
    /\ \E e \in Slots :
          /\ e < last.env_store
          /\ envs[e].env_status = ENV_FREE
          /\ envs[e].env_id # 0
          /\ env_free_list = e

---------------------------------------------------------------------------
(* C18 *)

\* the step is a call of env_free: made directly, or by env_destroy on the
\* current environment (line 549)
IsFree ==
    /\ vars' # vars
    /\ \/ last'.op = "env_free"
       \/ /\ last'.op \in {"env_destroy", "csys_exit"}
          /\ last'.exit = "sched_yield"

\* C18: env_free(env) sets env's status to FREE and env's link to the old
\* head of the free list, and makes env the head; env's identifier, parent
\* identifier, type, run counter and trap frame, every other slot, and
\* curenv are unchanged.
C18_FreeFrame ==
    [][IsFree =>
          LET env == last'.env IN
          /\ envs'[env].env_status = ENV_FREE
          /\ envs'[env].env_link = env_free_list
          /\ env_free_list' = env
          /\ envs'[env].env_id = envs[env].env_id
          /\ envs'[env].env_parent_id = envs[env].env_parent_id
          /\ envs'[env].env_type = envs[env].env_type
          /\ envs'[env].env_runs = envs[env].env_runs
          /\ envs'[env].env_tf = envs[env].env_tf
          /\ \A e \in Slots \ {env} : envs'[e] = envs[e]
          /\ curenv' = curenv]_vars

\* env_free has freed the current environment, which had run and had its
\* trap frame saved by csys_yield
C18_Witness ==
    /\ last.op = "env_free" /\ last.env = curenv
    /\ envs[curenv].env_status = ENV_FREE
    /\ envs[curenv].env_runs = 1
    /\ envs[curenv].env_id # 0
    /\ envs[curenv].env_tf \in TrapFrames

---------------------------------------------------------------------------
(* C19 *)

\* the file range [p_offset, p_offset + p_filesz) of a segment is not within
\* the buffer, or its file size exceeds its memory size
FileRangeBad(img, ph) ==
    \/ ph.p_offset + ph.p_filesz > img.size
    \/ ph.p_filesz > ph.p_memsz

\* the addresses the segment occupies in memory
SegmentAddrs(ph) == {AddrAdd(ph.p_va, k) : k \in 0 .. ph.p_memsz - 1}

\* C19 as stated: when a loadable segment has a file range that is not
\* within the buffer, or a file size above its memory size, load_icode
\* returns -E_INVALID_EXE and has written nothing but the segments that
\* come before the first such segment.
C19_BadFileRangeRejected ==
    (icode.done /\ HeadersPass(icode.image)) =>
        LET img == icode.image
            bad == {i \in LoadIndices(img) : FileRangeBad(img, Ph(img, i))}
        IN \A i \in bad :
              /\ icode.r = InvalidExe
              /\ (\A j \in bad : i <= j) =>
                    DOMAIN icode.loaded \subseteq
                        UNION {SegmentAddrs(Ph(img, j)) :
                                  j \in {k \in LoadIndices(img) : k < i}}

---------------------------------------------------------------------------
(* C20 *)

\* C20 as stated: whatever the p_va, p_memsz, p_offset and p_filesz of the
\* program headers, every byte the segment loop of load_icode writes lies
\* below UTOP and every byte it reads from the image lies inside the buffer.
C20_LoadStaysInBounds ==
    (icode.done /\ HeadersPass(icode.image)) =>
        /\ \A a \in DOMAIN icode.loaded : a < UTOP
        /\ \A off \in LoadReads(icode.image, 0) : off < icode.image.size

---------------------------------------------------------------------------
(* C21 *)

\* the indices of the SYMTAB sections
SymtabIndices(img) ==
    {i \in 0 .. img.e_shnum - 1 : Sh(img, i).sh_type = ELF_SHT_SYMTAB}

\* load_icode reaches bind_functions, which finds ".strtab" well formed
\* (lines 237-279) and so comes to the loop over the sections of line 281
SymtabsReached(img) ==
    LET st == ImageSpan(img)
        strtab == FindStrtab(img, 0)
        strsec == Sh(img, img.e_shstrndx)
        sec == Sh(img, strtab)
    IN /\ HeadersPass(img) /\ st.r = 0
       /\ st.max_addr > st.min_addr /\ st.max_addr < UTOP
       /\ img.e_entry >= st.min_addr /\ img.e_entry < st.max_addr
       /\ strsec.sh_offset + strsec.sh_size <= img.size
       /\ strtab >= 0 /\ strtab < img.e_shnum
       /\ sec.sh_offset + sec.sh_size <= img.size
       /\ sec.sh_size > 0
       /\ Byte(img, sec.sh_offset + sec.sh_size - 1) = 0

\* the size of the section is not a multiple of the size of a symbol, or
\* its byte range does not lie within the buffer
SymtabBad(img, sec) ==
    \/ sec.sh_size % SizeofSym # 0
    \/ sec.sh_offset + sec.sh_size > img.size

\* the addresses of the pointers the symbols of the section name
SymtabAddrs(img, sec) ==
    UNION {{AddrAdd(Sym(img, sec.sh_offset, j).st_value, k) :
               k \in 0 .. SizeofPtr - 1} :
           j \in 0 .. sec.sh_size \div SizeofSym - 1}

\* C21 as stated: when a SYMTAB section has a size that is not a multiple of
\* the size of a symbol, or a byte range that is not within the buffer,
\* bind_functions returns -E_INVALID_EXE and has bound no symbol but those
\* of the SYMTAB sections that come before the first such section.
C21_BadSymtabRejected ==
    (icode.done /\ SymtabsReached(icode.image)) =>
        LET img == icode.image
            bad == {i \in SymtabIndices(img) : SymtabBad(img, Sh(img, i))}
        IN \A i \in bad :
              /\ icode.r = InvalidExe
              /\ (\A j \in bad : i <= j) =>
                    DOMAIN icode.bound \subseteq
                        UNION {SymtabAddrs(img, Sh(img, j)) :
                                  j \in {k \in SymtabIndices(img) : k < i}}

---------------------------------------------------------------------------
(* C22 *)

\* the initial stack pointers that the slots allocated so far hold (a freed
\* slot keeps its trap frame until it is allocated again)
StacksInTable ==
    {envs[e].env_tf.tf_rsp : e \in {s \in Slots : envs[s].env_id # 0}}

---------------------------------------------------------------------------
(* C23 *)

\* no core is inside a call
Quiescent == \A c \in Cpus : cpus[c].pc = "idle"

\* C23 as stated: when two cores have run env_alloc and env_free calls with
\* their reads and writes interleaved, and both calls are over, no slot has
\* been returned to both cores, and the free list is acyclic and holds
\* exactly the FREE slots (no freed slot is lost from it).
C23_SmpTableInvariants ==
    Quiescent =>
        /\ \A c, d \in Cpus : c # d => cpus[c].held \cap cpus[d].held = {}
        /\ C13_FreeListExact

---------------------------------------------------------------------------
(* Spec: the environment table under the operations of kern/env.c, with    *)
(* env_alloc called as env_create calls it (parent_id 0) and envid2env     *)
(* called without permission checking.                                     *)

Next ==
    \/ \E id \in LookupIds : Lookup(id, FALSE, 0)
    \/ \E type \in EnvTypes : AllocsBelow(MaxAllocs) /\ EnvAlloc(0, type)
    \/ \E env \in Slots : EnvFree(env)
    \/ \E env \in Slots : EnvDestroy(env)
    \/ EnvDestroyFinish
    \/ CsysExit
    \/ \E env \in Slots : RunsBelow(env, MaxRuns) /\ EnvRun(env)

Spec == Init /\ [][Next]_vars

---------------------------------------------------------------------------
(* SpecPerm: environments that create environments (env_alloc with the     *)
(* caller's identifier as parent_id), and envid2env with permission        *)
(* checking.                                                               *)

NextPerm ==
    \/ \E id \in ValidIds, junk \in NullReads : Lookup(id, TRUE, junk)
    \/ \E type \in EnvTypes : \E parent_id \in ParentIds :
          AllocsBelow(MaxAllocsPerm) /\ EnvAlloc(parent_id, type)
    \/ CsysExit
    \/ EnvDestroyFinish
    \/ \E env \in Slots : RunsBelow(env, MaxRunsPerm) /\ EnvRun(env)

SpecPerm == Init /\ [][NextPerm]_vars

---------------------------------------------------------------------------
(* SpecElf: env_create at kernel initialisation, on the base image with up *)
(* to two fields replaced.                                                 *)

NextElf ==
    \/ \E a \in 1 .. Len(Patches), b \in 1 .. Len(Patches), type \in EnvTypes :
          CreatesBelow(MaxCreates) /\ EnvCreate(BINARY, Image(a, b), type)
    \/ \E type \in EnvTypes :
          CreatesBelow(MaxCreates) /\ EnvCreate(0, BaseImage, type)

SpecElf == Init /\ [][NextElf]_vars

---------------------------------------------------------------------------
(* SpecSys: the operations that change the environment table (env_alloc,   *)
(* env_free, env_destroy, env_run) and the two system calls.               *)

NextSys ==
    \/ \E type \in EnvTypes : AllocsBelow(MaxAllocs) /\ EnvAlloc(0, type)
    \/ \E env \in Slots : EnvFree(env)
    \/ \E env \in Slots : EnvDestroy(env)
    \/ EnvDestroyFinish
    \/ CsysExit
    \/ \E env \in Slots : RunsBelow(env, MaxRuns) /\ EnvRun(env)
    \/ \E tf \in TrapFrames, outcome \in {"fault", "sched_yield"} :
          CsysYield(tf, outcome)

SpecSys == Init /\ [][NextSys]_vars

---------------------------------------------------------------------------
(* SpecSmp: two cores in env_alloc and env_free at once, one access to the *)
(* table at a time.                                                        *)

NextSmp ==
    \/ \E c \in Cpus : SmpAlloc176(c)
    \/ \E c \in Cpus : SmpAlloc180(c)
    \/ \E c \in Cpus : SmpAlloc183(c)
    \/ \E c \in Cpus, type \in EnvTypes : SmpAlloc186(c, type)
    \/ \E c \in Cpus : SmpAlloc188(c)
    \/ \E c \in Cpus : SmpAlloc189(c)
    \/ \E c \in Cpus : SmpAlloc213(c)
    \/ \E c \in Cpus : SmpAlloc214(c)
    \/ \E c \in Cpus : SmpAlloc214w(c)
    \/ \E c \in Cpus : SmpAlloc217(c)
    \/ \E c \in Cpus : SmpAlloc220(c)
    \/ \E c \in Cpus : SmpAlloc220w(c)
    \/ \E c \in Cpus : SmpAlloc221(c)
    \/ \E c \in Cpus, env \in Slots : SmpFree529(c, env)
    \/ \E c \in Cpus : SmpFree530(c)
    \/ \E c \in Cpus : SmpFree530w(c)
    \/ \E c \in Cpus : SmpFree531(c)

SpecSmp == Init /\ [][NextSmp]_vars

==========================================================================
